---- MODULE Spec2Model ----
(***************************************************************************)
(* The nftstorage.link perma-cache client (PermaCache.put / list, the      *)
(* throttled-queue rate limiter behind createRateLimiter) as a state       *)
(* machine; several clients sharing the module-wide limiter or owning one   *)
(* (SpecShared); the edge worker's router and its fetch (SpecRouter).      *)
(*                                                                         *)
(* Time is a discrete clock `now` (Date.now()).  A promise that is awaited *)
(* is a position of its owner (pc); the continuation after an await is an  *)
(* action of its own.                                                      *)
(***************************************************************************)
EXTENDS Integers, Sequences, FiniteSets

\* ---------------------------------------------------------------- bounds
\* RATE_LIMIT_REQUESTS (100 in the source) and RATE_LIMIT_PERIOD (60000 ms in
\* the source), scaled down so that the quota is reached and windows elapse.
RATE_LIMIT_REQUESTS == 2
RATE_LIMIT_PERIOD == 2
\* Clock ticks modelled after the first reading of Date.now().
Horizon == 2
\* Invocations of a limiter made by anonymous callers, and the clock ticks
\* they are spread over (SpecLimiter).
MaxInvocations == 6
LimiterHorizon == 6
\* Longest list of urls handed to put.
MaxUrls == 2
\* Most failing attempts the server answers a url with before it succeeds.
MaxFails == 2
\* Limiter invocations made through all the services together (SpecShared).
MaxCalls == 5

\* ------------------------------------------------------- program constants
MAX_PUT_RETRIES == 5

\* ------------------------------------------------------------------ state
VARIABLES
    now,        \* Date.now()
    throttle,   \* the closure state of throttledQueue(...) of the limiter in use
    client,     \* the PermaCache instance (this.token), NoClient before `new`
    net,        \* the network requests issued by fetch, in order
    putPc,      \* PermaCache.put: "idle", "running", "resolved", "threw"
    urls,       \* put's urls argument
    options,    \* put's options argument
    items,      \* put: the async function of each url (urls.map)
    settled,    \* put: the indexes of the items, in the order they settled
    responses,  \* put: the array put resolved with
    putError,   \* put: the error the call rejected with
    cached,     \* the calls made to options.onCachedUrl, in order
    listPc,     \* PermaCache.list: "idle", "limiter", "fetching", "resolved", "threw"
    listTicket, \* list: its invocation of the limiter
    listBody,   \* list: the response envelope received
    listResult, \* list: the value the call resolved with
    listError,  \* list: the error the call rejected with
    services,   \* several clients: the PermaCache instances constructed, by name
    limiters,   \* several clients: the limiters that exist, by name
    callsBy,    \* several clients: the limiter invocations made through each service
    request,    \* edge router: the request given to fetch
    env,        \* edge router: the env object (env.log set or not)
    routerPc,   \* edge router: "idle", "envAll", "routing", "caught", "returned"
    pending,    \* edge router: the handlers of the matched route still to be entered
    trace,      \* edge router: the handlers entered, in order
    failure,    \* edge router: the handler that threw
    reply,      \* edge router: the value fetch returned
    logCalls    \* edge router: the calls made to env.log, in order

limiterVars == <<now, throttle>>
putVars == <<putPc, urls, options, items, settled, responses, putError, cached>>
listVars == <<listPc, listTicket, listBody, listResult, listError>>
sharedVars == <<services, limiters, callsBy>>
routerVars == <<request, env, routerPc, pending, trace, failure, reply, logCalls>>
vars == <<now, throttle, client, net, putVars, listVars, sharedVars, routerVars>>

\* `timeout === undefined`
NoTimeout == -1

\* Date.now() at the start: far from 0, the initial lastIntervalStart.
Epoch == RATE_LIMIT_PERIOD + 1

MaxTime == Epoch + Horizon
LimiterMaxTime == Epoch + LimiterHorizon

\* ----------------------------------------------------------- rate limiter
\* throttledQueue(maxRequestsPerInterval, interval): the closure state of the
\* throttle.  invoked and grants are the history of the calls made to the
\* returned function and of the callbacks it ran (a callback run resolves the
\* promise of its invocation): grants[k] = the k-th invocation released, the
\* time of its release and the interval (its start) it was counted in.
throttledQueue(maxRequestsPerInterval, interval) ==
    [ maxRequestsPerInterval |-> maxRequestsPerInterval,
      interval               |-> interval,
      queue                  |-> <<>>,
      lastIntervalStart      |-> 0,
      numRequestsPerInterval |-> 0,
      timeout                |-> NoTimeout,
      invoked                |-> 0,
      grants                 |-> <<>> ]

createRateLimiterOverQuota ==
    throttledQueue(RATE_LIMIT_REQUESTS + 1, RATE_LIMIT_PERIOD)

\* createRateLimiter(): a throttle of RATE_LIMIT_REQUESTS per RATE_LIMIT_PERIOD.
createRateLimiter ==
    throttledQueue(RATE_LIMIT_REQUESTS, RATE_LIMIT_PERIOD)

Grant(ticket, t, start) == [ticket |-> ticket, time |-> t, interval |-> start]

\* One call rateLimiter() = throttle(() => {}) at time t: the promise executor
\* runs synchronously.  The invocation gets the next ticket.
rateLimiter(thr, t) ==
    LET ticket == thr.invoked + 1
        fresh == thr.timeout = NoTimeout /\ (t - thr.lastIntervalStart) > thr.interval
        start == IF fresh THEN t ELSE thr.lastIntervalStart
        num   == IF fresh THEN 0 ELSE thr.numRequestsPerInterval
    IN  IF num < thr.maxRequestsPerInterval
        THEN [thr EXCEPT !.lastIntervalStart = start,
                         !.numRequestsPerInterval = num + 1,
                         !.invoked = ticket,
                         !.grants = Append(@, Grant(ticket, t, start))]
        ELSE [thr EXCEPT !.lastIntervalStart = start,
                         !.numRequestsPerInterval = num + 1,
                         !.invoked = ticket,
                         !.queue = Append(@, ticket),
                         !.timeout = IF @ = NoTimeout THEN start + thr.interval ELSE @]

Min(a, b) == IF a < b THEN a ELSE b

RECURSIVE GrantAll(_, _, _, _)
GrantAll(grants, tickets, t, start) ==
    IF tickets = <<>> THEN grants
    ELSE GrantAll(Append(grants, Grant(Head(tickets), t, start)), Tail(tickets), t, start)

dequeueLifo(thr, t) ==
    LET intervalEnd == thr.lastIntervalStart + thr.interval
        n    == Min(Len(thr.queue), thr.maxRequestsPerInterval)
        head == SubSeq(thr.queue, Len(thr.queue) - n + 1, Len(thr.queue))
        rest == SubSeq(thr.queue, 1, Len(thr.queue) - n)
    IN  IF t < intervalEnd
        THEN [thr EXCEPT !.timeout = intervalEnd]
        ELSE [thr EXCEPT !.lastIntervalStart = t,
                         !.numRequestsPerInterval = n,
                         !.queue = rest,
                         !.grants = GrantAll(@, head, t, t),
                         !.timeout = IF rest # <<>> THEN t + thr.interval ELSE NoTimeout]

dequeueNoRearm(thr, t) ==
    LET intervalEnd == thr.lastIntervalStart + thr.interval
        n    == Min(Len(thr.queue), thr.maxRequestsPerInterval)
        head == SubSeq(thr.queue, 1, n)
        rest == SubSeq(thr.queue, n + 1, Len(thr.queue))
    IN  IF t < intervalEnd
        THEN [thr EXCEPT !.timeout = intervalEnd]
        ELSE [thr EXCEPT !.lastIntervalStart = t,
                         !.numRequestsPerInterval = n,
                         !.queue = rest,
                         !.grants = GrantAll(@, head, t, t),
                         !.timeout = NoTimeout]

\* dequeue(), the timer callback of the throttle, run at time t.
dequeue(thr, t) ==
    LET intervalEnd == thr.lastIntervalStart + thr.interval
        n    == Min(Len(thr.queue), thr.maxRequestsPerInterval)
        head == SubSeq(thr.queue, 1, n)
        rest == SubSeq(thr.queue, n + 1, Len(thr.queue))
    IN  IF t < intervalEnd
        THEN [thr EXCEPT !.timeout = intervalEnd]
        ELSE [thr EXCEPT !.lastIntervalStart = t,
                         !.numRequestsPerInterval = n,
                         !.queue = rest,
                         !.grants = GrantAll(@, head, t, t),
                         !.timeout = IF rest # <<>> THEN t + thr.interval ELSE NoTimeout]

\* The tickets released so far.
Granted(thr) == {thr.grants[k].ticket : k \in 1..Len(thr.grants)}

\* ----------------------------------------------------------------- values
NoClient == [constructed |-> FALSE]
None == "none"

\* The token option of the constructor: omitted, empty, or a token.
Tokens == {"undefined", "", "secret"}

TruthyUnlessUndefined(token) == token # "undefined"

\* JavaScript truthiness of a token: undefined and "" are falsy.
Truthy(token) == token \notin {"undefined", ""}

\* The urls a caller may hand to put: the i-th url of a list is Url(i), so the
\* urls of a list are distinct and a url tells its position.
Url(i) == <<"https://a/", i>>

UrlLists == {[i \in 1..n |-> Url(i)] : n \in 0..MaxUrls}

\* An option left out.
Unset == -1

\* No options object, no response body, no value yet.
NoOptions == [onCachedUrl |-> "undefined", maxRetries |-> Unset]
NoBody == [received |-> FALSE]
NoValue == [returned |-> FALSE]

\* put's options: onCachedUrl supplied or not, maxRetries given or not.
PutOptions ==
    [onCachedUrl : {"undefined", "function"}, maxRetries : {Unset, 0}]

\* { onCachedUrl, maxRetries = MAX_PUT_RETRIES } = {}
maxRetries(opts) ==
    IF opts.maxRetries = Unset THEN MAX_PUT_RETRIES ELSE opts.maxRetries

\* How an attempt of an item ends: "ok" (a success status and the entry as
\* JSON), or a failure: "status" (a non-success status with a JSON body
\* {message}), "network" (fetch, or request.json(), rejects).
Failures == {"status", "network"}
Answers == {"ok"} \cup Failures

\* The decoded body of a successful POST for url: its PermaCacheEntry.
Entry(url) == [url |-> url]

\* The reason an attempt failing in the way `kind` throws.
Reason(kind) ==
    CASE kind = "status"  -> "res.message"
      [] kind = "network" -> "fetch failed"

\* An outcome of p-settle.
Pending == [status |-> "pending"]
Fulfilled(value) == [status |-> "fulfilled", value |-> value]
Rejected(reason) == [status |-> "rejected", reason |-> reason]

\* A request handed to fetch.
Request(method, target) == [method |-> method, path |-> "perma-cache/", target |-> target]

\* ----------------------------------------------------------------- client
\* new PermaCache({token}): stores the token as given.
constructor(token) == [constructed |-> TRUE, token |-> token]

headersLenient(token) ==
    [threw |-> FALSE, authorization |-> <<"Bearer", token>>]

\* PermaCache.headers(token)
headers(token) ==
    IF ~Truthy(token)
    THEN [threw |-> TRUE, message |-> "missing token"]
    ELSE [threw |-> FALSE, authorization |-> <<"Bearer", token>>]

\* n calls of rateLimiter() in a row, at time t.
RECURSIVE rateLimiterN(_, _, _)
rateLimiterN(thr, t, n) ==
    IF n = 0 THEN thr ELSE rateLimiterN(rateLimiter(thr, t), t, n - 1)

ItemReversed(us, i, firstTicket) ==
    [ url      |-> us[i],
      pc       |-> "limiter",
      ticket   |-> firstTicket + Len(us) - i,
      attempts |-> 0,
      failed   |-> 0,
      result   |-> Pending ]

\* The async function of urls.map for urls[i], run up to its first await: it
\* has called rateLimiter() as the i-th of the batch.
Item(us, i, firstTicket) ==
    [ url      |-> us[i],
      pc       |-> "limiter",
      ticket   |-> firstTicket + i - 1,
      attempts |-> 0,
      failed   |-> 0,
      result   |-> Pending ]

IsSettledOnFulfilment(it) == it.pc = "fulfilled"

IsSettled(it) == it.pc \in {"fulfilled", "rejected"}

ItemThrowsRetrying(it, reason) ==
    IF it.attempts <= MaxFails
    THEN [it EXCEPT !.pc = "limiter"]
    ELSE [it EXCEPT !.pc = "rejected", !.result = Rejected(reason)]

\* An exception thrown inside the async function of an item: its promise
\* rejects.
ItemThrows(it, reason) ==
    [it EXCEPT !.pc = "rejected", !.result = Rejected(reason)]

\* `return res`
ItemReturns(it, res) ==
    [it EXCEPT !.pc = "fulfilled", !.result = Fulfilled(res)]

ReachesCallbackBeforeCheck(answer) == answer \in {"ok", "status"}

\* Whether an attempt answered `answer` reaches line 132, onCachedUrl(url):
\* not when an await rejected or `!request.ok` threw.
ReachesCallback(answer) == answer = "ok"

pSettleCompletionOrder(its, order) ==
    [state |-> "fulfilled", value |-> [k \in 1..Len(its) |-> its[order[k]].result]]

pSettleAll(its, order) ==
    IF \E i \in 1..Len(its) : its[i].result.status = "rejected"
    THEN [state |-> "rejected", reason |-> its[order[1]].result.reason]
    ELSE [state |-> "fulfilled", value |-> [i \in 1..Len(its) |-> its[i].result]]

\* pSettle(promises), once every promise has settled: fulfilled with the
\* outcomes in the order of the promises.
pSettle(its, order) ==
    [state |-> "fulfilled", value |-> [i \in 1..Len(its) |-> its[i].result]]

\* ------------------------------------------------------- several clients
\* const globalRateLimiter = createRateLimiter(): the name of the limiter made
\* when the module is loaded.
globalRateLimiter == "global"

\* The PermaCache instances a program constructs, none of them given a
\* rateLimiter option, and the plain service objects { endpoint, token } it
\* hands to the static methods.
Instances == {"first", "second"}
PlainServices == {"serviceA", "serviceB"}

\* interface Service { endpoint, token, rateLimiter? }
Service(token, limiter) == [token |-> token, rateLimiter |-> limiter]

ownRateLimiterShared(name) == globalRateLimiter

\* this.rateLimiter = rateLimiter || createRateLimiter(), no rateLimiter
\* given: a new limiter, named after the instance it is made for.
ownRateLimiter(name) == name

rateLimiterOfAlwaysGlobal(service) == globalRateLimiter

\* { endpoint, token, rateLimiter = globalRateLimiter }: the limiter a static
\* method uses for a service.
rateLimiterOf(service) ==
    IF service.rateLimiter = "undefined" THEN globalRateLimiter
    ELSE service.rateLimiter

\* The service object a caller hands to the static method: `this`, or a plain
\* object without rateLimiter.
ServiceOf(caller) ==
    IF caller \in PlainServices THEN Service("secret", "undefined")
    ELSE services[caller]

RECURSIVE CallsOf(_)
\* The limiter invocations made through the callers of a set.
CallsOf(callers) ==
    IF callers = {} THEN 0
    ELSE LET c == CHOOSE x \in callers : TRUE
         IN  callsBy[c] + CallsOf(callers \ {c})

\* ------------------------------------------------------------ edge router
\* The requests the worker may receive: a method, a path, an Authorization
\* header or none.
IncomingRequests ==
    [ method        : {"GET", "PUT", "OPTIONS"},
      path          : {"/perma-cache/u", "/perma-cache", "/"},
      authorization : {"absent", "present"} ]

NoRequest == [method |-> "none", path |-> "none", authorization |-> "absent"]
NoReply == [returned |-> FALSE]

\* The handlers of a route as the sequence in which a request enters them: a
\* wrapper is entered before the handler it wraps.
withCorsHeaders(handler) == <<"withCorsHeaders">> \o handler
withApiToken(handler) == <<"withApiToken">> \o handler
withSuperHotAuthorized(handler) == <<"withSuperHotAuthorized">> \o handler
withAccountNotRestricted(handler) == <<"withAccountNotRestricted">> \o handler
permaCachePut == <<"permaCachePut">>

\* The auth table: the lock, the fire and the no-entry sign.
authLock(handler) == withCorsHeaders(withApiToken(handler))
authFire(handler) == withSuperHotAuthorized(handler)
authNoEntry(handler) == withAccountNotRestricted(handler)

putRouteFireFirst == authLock(authFire(authNoEntry(permaCachePut)))

\* .put('/perma-cache/:url', auth lock(auth no-entry(auth fire(permaCachePut))))
putRoute == authLock(authNoEntry(authFire(permaCachePut)))

MatchesAnyMethod(req) == req.path = "/perma-cache/u"

\* The put route matches the method PUT and a path /perma-cache/:url.
Matches(req) == req.method = "PUT" /\ req.path = "/perma-cache/u"

\* How envAll may end: env set up (env.log included), or a throw before or
\* after env.log was set.
EnvOutcomes == {"ok", "threwBeforeLog", "threwAfterLog"}

\* Whether a handler can let the request of `req` pass: withApiToken cannot
\* without an Authorization header.
MayPass(handler, req) ==
    handler = "withApiToken" => req.authorization = "present"

\* Whether a handler can throw: withCorsHeaders only wraps.
MayThrow(handler) == handler # "withCorsHeaders"

\* A response: its status, the error it reports, whether it carries the CORS
\* headers, whether it went through env.log.end.
Response(status, error, cors) ==
    [returned |-> TRUE, status |-> status, error |-> error, cors |-> cors,
     logged |-> FALSE]

serverErrorBare(error) == Response("error", error, FALSE)

\* serverError(error, request, env):
\* addCorsHeaders(request, errorHandler(error, env)).
serverError(error) == Response("error", error, TRUE)

\* env.log.end(res)
logEnd(res) == [res EXCEPT !.logged = TRUE]

\* ----------------------------------------------------------- continuations
\* The invocations of the limiter whose caller is still at its
\* `await rateLimiter()`.
Awaiting ==
    {items[j].ticket : j \in {k \in 1..Len(items) : items[k].pc = "limiter"}}
        \cup (IF listPc = "limiter" THEN {listTicket} ELSE {})

\* The place of a released ticket among the releases.
GrantIndex(thr, ticket) ==
    CHOOSE k \in 1..Len(thr.grants) : thr.grants[k].ticket = ticket

ResumesUngated(ticket) == TRUE

\* The caller awaiting the invocation `ticket` resumes: its promise has been
\* resolved, and the continuations of promises resolved before it have run
\* (promise jobs run in the order the promises were resolved).
Resumes(ticket) ==
    /\ ticket \in Granted(throttle)
    /\ \A other \in Awaiting \cap Granted(throttle) :
            GrantIndex(throttle, other) >= GrantIndex(throttle, ticket)

\* ---------------------------------------------------------------- actions
Init ==
    /\ now = Epoch
    /\ throttle = createRateLimiter
    /\ client = NoClient
    /\ net = <<>>
    /\ putPc = "idle"
    /\ urls = <<>>
    /\ options = NoOptions
    /\ items = <<>>
    /\ settled = <<>>
    /\ responses = <<>>
    /\ putError = None
    /\ cached = <<>>
    /\ listPc = "idle"
    /\ listTicket = 0
    /\ listBody = NoBody
    /\ listResult = NoValue
    /\ listError = None
    /\ services = [name \in {} |-> Service("secret", "undefined")]
    /\ limiters = [name \in {globalRateLimiter} |-> createRateLimiter]
    /\ callsBy = [caller \in PlainServices \cup Instances |-> 0]
    /\ request = NoRequest
    /\ env = [log |-> FALSE]
    /\ routerPc = "idle"
    /\ pending = <<>>
    /\ trace = <<>>
    /\ failure = None
    /\ reply = NoReply
    /\ logCalls = <<>>

\* Time passes.
Tick ==
    /\ now < MaxTime
    /\ now' = now + 1
    /\ UNCHANGED <<throttle, client, net, putVars, listVars>>
    /\ UNCHANGED <<sharedVars, routerVars>>

\* The timer set by setTimeout(dequeue, ...) fires, at its deadline or later.
Dequeue ==
    /\ throttle.timeout # NoTimeout
    /\ now >= throttle.timeout
    /\ throttle' = dequeue(throttle, now)
    /\ UNCHANGED <<now, client, net, putVars, listVars>>
    /\ UNCHANGED <<sharedVars, routerVars>>

\* Time passes for a limiter on its own.
Elapse ==
    /\ now < LimiterMaxTime
    /\ now' = now + 1
    /\ UNCHANGED <<throttle, client, net, putVars, listVars>>
    /\ UNCHANGED <<sharedVars, routerVars>>

\* Time passes while the timer of the limiter is pending, up to its deadline
\* (whatever the horizon of the clock).
AwaitTimer ==
    /\ throttle.timeout # NoTimeout
    /\ now < throttle.timeout
    /\ now' = now + 1
    /\ UNCHANGED <<throttle, client, net, putVars, listVars>>
    /\ UNCHANGED <<sharedVars, routerVars>>

\* Some caller invokes the limiter.
Invoke ==
    /\ throttle.invoked < MaxInvocations
    /\ throttle' = rateLimiter(throttle, now)
    /\ UNCHANGED <<now, client, net, putVars, listVars>>
    /\ UNCHANGED <<sharedVars, routerVars>>

\* new PermaCache({token}) with no rateLimiter option: the instance gets a
\* limiter of its own.
Construct(token) ==
    /\ client = NoClient
    /\ client' = constructor(token)
    /\ throttle' = createRateLimiter
    /\ UNCHANGED <<now, net, putVars, listVars>>
    /\ UNCHANGED <<sharedVars, routerVars>>

\* client.put(us, opts), up to the await of pSettle: the headers are built,
\* then urls.map runs every item up to its await of rateLimiter().
PutCall(us, opts) ==
    /\ client.constructed
    /\ putPc = "idle"
    /\ urls' = us
    /\ options' = opts
    /\ IF headers(client.token).threw
       THEN /\ putPc' = "threw"
            /\ putError' = headers(client.token).message
            /\ UNCHANGED <<throttle, items>>
       ELSE /\ putPc' = "running"
            /\ throttle' = rateLimiterN(throttle, now, Len(us))
            /\ items' = [i \in 1..Len(us) |-> Item(us, i, throttle.invoked + 1)]
            /\ UNCHANGED putError
    /\ UNCHANGED <<now, client, net, settled, responses, cached, listVars>>
    /\ UNCHANGED <<sharedVars, routerVars>>

\* Item i after `await rateLimiter()`: fetch(apiUrl, {method: 'POST', headers}).
ItemFetch(i) ==
    /\ putPc = "running"
    /\ items[i].pc = "limiter"
    /\ Resumes(items[i].ticket)
    /\ net' = Append(net, Request("POST", items[i].url))
    /\ items' = [items EXCEPT ![i].pc = "fetching", ![i].attempts = @ + 1]
    /\ UNCHANGED <<now, throttle, client, putPc, urls, options, settled, responses,
                   putError, cached, listVars>>
    /\ UNCHANGED <<sharedVars, routerVars>>

\* Item i after `await fetch` and `await request.json()`: the attempt failed
\* (fetch or json() rejected, or !request.ok), or it succeeded, and then
\* onCachedUrl(url) is called and res returned.  The server fails a url at
\* most MaxFails times.
ItemResponse(i, answer) ==
    /\ putPc = "running"
    /\ items[i].pc = "fetching"
    /\ answer \in Failures => items[i].failed < MaxFails
    /\ LET it == [items[i] EXCEPT !.failed = IF answer \in Failures THEN @ + 1 ELSE @]
           called == ReachesCallback(answer) /\ options.onCachedUrl = "function"
           after ==
               IF ReachesCallback(answer) /\ options.onCachedUrl = "undefined"
               THEN ItemThrows(it, "onCachedUrl is not a function")
               ELSE IF answer \in Failures
                    THEN ItemThrows(it, Reason(answer))
                    ELSE ItemReturns(it, Entry(it.url))
       IN  /\ items' = [items EXCEPT ![i] = after]
           /\ cached' = IF called
                        THEN Append(cached, [item |-> i, url |-> it.url])
                        ELSE cached
           /\ settled' = IF IsSettled(after) THEN Append(settled, i) ELSE settled
    /\ UNCHANGED <<now, throttle, client, net, putPc, urls, options, responses,
                   putError, listVars>>
    /\ UNCHANGED <<sharedVars, routerVars>>

\* put after `await pSettle(...)`: return responses.
PutReturn ==
    /\ putPc = "running"
    /\ \A i \in 1..Len(items) : IsSettled(items[i])
    /\ LET p == pSettle(items, settled)
       IN  IF p.state = "fulfilled"
           THEN putPc' = "resolved" /\ responses' = p.value /\ UNCHANGED putError
           ELSE putPc' = "threw" /\ putError' = p.reason /\ UNCHANGED responses
    /\ UNCHANGED <<now, throttle, client, net, urls, options, items, settled, cached,
                   listVars>>
    /\ UNCHANGED <<sharedVars, routerVars>>

\* The envelopes the server may answer GET perma-cache/ with, and a failure
\* of fetch itself.
Envelopes ==
    { [ok |-> TRUE, value |-> "entries"],
      [ok |-> FALSE, error |-> [message |-> "bad token"]] }

listOutcomeUnchecked(result) ==
    [pc |-> "resolved", value |-> result, error |-> None]

\* list after `await response.json()`
listOutcome(result) ==
    IF ~result.ok
    THEN [pc |-> "threw", value |-> NoValue, error |-> result.error.message]
    ELSE [pc |-> "resolved", value |-> result, error |-> None]

\* client.list(), up to `await rateLimiter()`.
ListCall ==
    /\ client.constructed
    /\ listPc = "idle"
    /\ IF headers(client.token).threw
       THEN /\ listPc' = "threw"
            /\ listError' = headers(client.token).message
            /\ UNCHANGED <<throttle, listTicket>>
       ELSE /\ listPc' = "limiter"
            /\ throttle' = rateLimiter(throttle, now)
            /\ listTicket' = throttle.invoked + 1
            /\ UNCHANGED listError
    /\ UNCHANGED <<now, client, net, putVars, listBody, listResult>>
    /\ UNCHANGED <<sharedVars, routerVars>>

\* list after `await rateLimiter()`: fetch(url, {method: 'GET', headers}).
ListFetch ==
    /\ listPc = "limiter"
    /\ Resumes(listTicket)
    /\ net' = Append(net, Request("GET", ""))
    /\ listPc' = "fetching"
    /\ UNCHANGED <<now, throttle, client, putVars, listTicket, listBody, listResult,
                   listError>>
    /\ UNCHANGED <<sharedVars, routerVars>>

\* list after `await fetch` and `await response.json()`.
ListResponse(result) ==
    /\ listPc = "fetching"
    /\ listBody' = result
    /\ listPc' = listOutcome(result).pc
    /\ listResult' = listOutcome(result).value
    /\ listError' = listOutcome(result).error
    /\ UNCHANGED <<now, throttle, client, net, putVars, listTicket>>
    /\ UNCHANGED <<sharedVars, routerVars>>

\* fetch or response.json() rejects in list.
ListFails ==
    /\ listPc = "fetching"
    /\ listPc' = "threw"
    /\ listError' = "fetch failed"
    /\ UNCHANGED <<now, throttle, client, net, putVars, listTicket, listBody, listResult>>
    /\ UNCHANGED <<sharedVars, routerVars>>

\* new PermaCache({ token }) for the instance `name`.
NewClient(name) ==
    /\ name \notin DOMAIN services
    /\ LET limiter == ownRateLimiter(name)
       IN  /\ services' = [n \in DOMAIN services \cup {name} |->
                              IF n = name THEN Service("secret", limiter)
                              ELSE services[n]]
           /\ limiters' = [l \in DOMAIN limiters \cup {limiter} |->
                              IF l \in DOMAIN limiters THEN limiters[l]
                              ELSE createRateLimiter]
    /\ UNCHANGED <<now, throttle, client, net, putVars, listVars, callsBy, routerVars>>

\* A call of list, or of put with one url, through a service, up to its
\* `await rateLimiter()`: an instance method hands `this` to the static one.
CallThrough(caller) ==
    /\ caller \in PlainServices \cup DOMAIN services
    /\ CallsOf(PlainServices \cup Instances) < MaxCalls
    /\ LET limiter == rateLimiterOf(ServiceOf(caller))
       IN  limiters' = [limiters EXCEPT ![limiter] = rateLimiter(@, now)]
    /\ callsBy' = [callsBy EXCEPT ![caller] = @ + 1]
    /\ UNCHANGED <<now, throttle, client, net, putVars, listVars, services, routerVars>>

\* The timer of one of the limiters fires.
DequeueOf(limiter) ==
    /\ limiter \in DOMAIN limiters
    /\ limiters[limiter].timeout # NoTimeout
    /\ now >= limiters[limiter].timeout
    /\ limiters' = [limiters EXCEPT ![limiter] = dequeue(@, now)]
    /\ UNCHANGED <<now, throttle, client, net, putVars, listVars, services, callsBy,
                   routerVars>>

\* fetch(request, env, ctx) is called: router.handle(request, env, ctx) starts
\* with the route all('*', envAll).
Fetch(req) ==
    /\ routerPc \in {"idle", "returned"}
    /\ request' = req
    /\ env' = [log |-> FALSE]
    /\ routerPc' = "envAll"
    /\ pending' = <<>>
    /\ trace' = <<>>
    /\ failure' = None
    /\ reply' = NoReply
    /\ logCalls' = <<>>
    /\ UNCHANGED <<now, throttle, client, net, putVars, listVars, sharedVars>>

\* envAll runs; when it returns, the router goes on to the put route if that
\* matches the request.
EnvAll(outcome) ==
    /\ routerPc = "envAll"
    /\ trace' = Append(trace, "envAll")
    /\ env' = [env EXCEPT !.log = outcome # "threwBeforeLog"]
    /\ IF outcome = "ok"
       THEN /\ routerPc' = "routing"
            /\ pending' = IF Matches(request) THEN putRoute ELSE <<>>
            /\ UNCHANGED failure
       ELSE /\ routerPc' = "caught"
            /\ failure' = "envAll"
            /\ UNCHANGED pending
    /\ UNCHANGED <<now, throttle, client, net, putVars, listVars, sharedVars,
                   request, reply, logCalls>>

\* The request enters the next handler of the route, which lets it pass to
\* the handler it wraps (permaCachePut: returns a response) or throws.
Enter(passes) ==
    /\ routerPc = "routing"
    /\ pending # <<>>
    /\ passes => MayPass(Head(pending), request)
    /\ ~passes => MayThrow(Head(pending))
    /\ trace' = Append(trace, Head(pending))
    /\ IF passes
       THEN /\ pending' = Tail(pending)
            /\ UNCHANGED <<routerPc, failure>>
       ELSE /\ routerPc' = "caught"
            /\ failure' = Head(pending)
            /\ UNCHANGED pending
    /\ UNCHANGED <<now, throttle, client, net, putVars, listVars, sharedVars,
                   request, env, reply, logCalls>>

\* router.handle resolved: env.log.timeEnd('request'); return env.log.end(res).
\* The response of permaCachePut went back through withCorsHeaders; res is
\* undefined when no route answered.
Return ==
    /\ routerPc = "routing"
    /\ pending = <<>>
    /\ logCalls' = <<"timeEnd", "end">>
    /\ reply' = IF Len(trace) > 1
                THEN logEnd(Response("ok", None, "withCorsHeaders" \in
                                     {trace[k] : k \in 1..Len(trace)}))
                ELSE logEnd(Response("undefined", None, FALSE))
    /\ routerPc' = "returned"
    /\ UNCHANGED <<now, throttle, client, net, putVars, listVars, sharedVars,
                   request, env, pending, trace, failure>>

\* catch (error): the response of serverError, through env.log if there is one.
Catch ==
    /\ routerPc = "caught"
    /\ IF env.log
       THEN /\ logCalls' = <<"timeEnd", "end">>
            /\ reply' = logEnd(serverError(failure))
       ELSE /\ reply' = serverError(failure)
            /\ UNCHANGED logCalls
    /\ routerPc' = "returned"
    /\ UNCHANGED <<now, throttle, client, net, putVars, listVars, sharedVars,
                   request, env, pending, trace, failure>>

NextLimiter == Elapse \/ Dequeue \/ Invoke

\* A limiter under any sequence of invocations.
SpecLimiter == Init /\ [][NextLimiter]_vars

Next ==
    \/ Tick
    \/ Dequeue
    \/ \E token \in Tokens : Construct(token)
    \/ \E us \in UrlLists, opts \in PutOptions : PutCall(us, opts)
    \/ \E i \in 1..Len(items) : ItemFetch(i)
    \/ \E i \in 1..Len(items), answer \in Answers : ItemResponse(i, answer)
    \/ PutReturn
    \/ ListCall
    \/ ListFetch
    \/ \E result \in Envelopes : ListResponse(result)
    \/ ListFails

\* One client, one put and one list, concurrently.
Spec == Init /\ [][Next]_vars

NextShared ==
    \/ Tick
    \/ \E name \in Instances : NewClient(name)
    \/ \E caller \in PlainServices \cup Instances : CallThrough(caller)
    \/ \E limiter \in {globalRateLimiter} \cup Instances : DequeueOf(limiter)

\* Several services in one program: two instances and two plain service
\* objects, none with a rateLimiter supplied.
SpecShared == Init /\ [][NextShared]_vars

NextRouter ==
    \/ \E req \in IncomingRequests : Fetch(req)
    \/ \E outcome \in EnvOutcomes : EnvAll(outcome)
    \/ \E passes \in BOOLEAN : Enter(passes)
    \/ Return
    \/ Catch

\* The edge worker handling one request after another.
SpecRouter == Init /\ [][NextRouter]_vars

NextLimiterFair == Elapse \/ AwaitTimer \/ Dequeue \/ Invoke

\* A limiter whose clock keeps running and whose timer fires once it is due
\* (the event loop runs due timers).
SpecLimiterFair ==
    /\ Init
    /\ [][NextLimiterFair]_vars
    /\ WF_vars(AwaitTimer)
    /\ WF_vars(Dequeue)

NextFair ==
    \/ Tick
    \/ AwaitTimer
    \/ Dequeue
    \/ \E token \in Tokens : Construct(token)
    \/ \E us \in UrlLists, opts \in PutOptions : PutCall(us, opts)
    \/ \E i \in 1..Len(items) : ItemFetch(i)
    \/ \E i \in 1..Len(items), answer \in Answers : ItemResponse(i, answer)
    \/ PutReturn
    \/ ListCall
    \/ ListFetch
    \/ \E result \in Envelopes : ListResponse(result)
    \/ ListFails

\* The client under an event loop that runs every job that is due: the clock
\* runs, due timers fire, resolved promises resume their awaiters, and every
\* network request is answered.
SpecFair ==
    /\ Init
    /\ [][NextFair]_vars
    /\ WF_vars(AwaitTimer)
    /\ WF_vars(Dequeue)
    /\ WF_vars(\E i \in 1..Len(items) : ItemFetch(i))
    /\ WF_vars(\E i \in 1..Len(items), answer \in Answers : ItemResponse(i, answer))
    /\ WF_vars(PutReturn)
    /\ WF_vars(ListFetch)
    /\ WF_vars((\E result \in Envelopes : ListResponse(result)) \/ ListFails)

\* ------------------------------------------------------------------ claims
Indexes == 1..Len(items)
MissingToken == client.constructed /\ client.token \in {"undefined", ""}
HasToken == client.constructed /\ client.token \notin {"undefined", ""}
RejectedItems == {i \in Indexes : items[i].result.status = "rejected"}
FulfilledEntries == {i \in 1..Len(responses) : responses[i].status = "fulfilled"}
CallbackCalls(i) == {k \in 1..Len(cached) : cached[k].item = i}
Requests(method) == {k \in 1..Len(net) : net[k].method = method}

\* C1: the array put resolves with has one entry per url, and entry i is the
\* outcome of urls[i], in whatever order the items settled and whichever failed.
C1_OutcomePerUrl ==
    putPc = "resolved" =>
        /\ Len(responses) = Len(urls)
        /\ \A i \in 1..Len(urls) :
            /\ items[i].url = urls[i]
            /\ responses[i] = items[i].result
            /\ responses[i].status \in {"fulfilled", "rejected"}
            /\ responses[i].status = "fulfilled" => responses[i].value = Entry(urls[i])

\* C1 witness: two urls, the second settled first, one fulfilled and one rejected.
C1_Witness ==
    /\ putPc = "resolved"
    /\ settled = <<2, 1>>
    /\ responses[1].status = "fulfilled"
    /\ responses[2].status = "rejected"

\* C2: a failing item becomes a rejected entry of its own only: an item is
\* rejected only for a failure of its own attempt (or of its own callback
\* call), N urls of which M are rejected give N-M fulfilled entries, and with a
\* token present the put call itself never fails.
C2_FailureIsolated ==
    /\ HasToken => putPc # "threw"
    /\ \A i \in Indexes :
        IsSettled(items[i]) =>
            (items[i].result.status = "rejected"
                <=> (items[i].failed > 0 \/ options.onCachedUrl = "undefined"))
    /\ putPc = "resolved" =>
        /\ Len(responses) = Len(urls)
        /\ Cardinality(FulfilledEntries) = Len(urls) - Cardinality(RejectedItems)

\* C2 witness: put resolved although the first url failed; its sibling is fulfilled.
C2_Witness ==
    /\ putPc = "resolved"
    /\ Len(urls) = 2
    /\ items[1].failed = 1 /\ responses[1].status = "rejected"
    /\ responses[2].status = "fulfilled"

GrantsIn(thr, from, to) ==
    {k \in 1..Len(thr.grants) : thr.grants[k].time >= from /\ thr.grants[k].time < to}
GrantsOf(thr, start) ==
    {k \in 1..Len(thr.grants) : thr.grants[k].interval = start}

C4_RetriedUntilSuccess ==
    \A i \in Indexes :
        (items[i].pc = "rejected" /\ options.onCachedUrl = "function")
            => items[i].failed > maxRetries(options)

\* C5: an item is attempted at most maxRetries + 1 times; with maxRetries = 0 a
\* settled item has been attempted exactly once.
C5_AttemptsBounded ==
    \A i \in Indexes :
        /\ items[i].attempts <= maxRetries(options) + 1
        /\ (options.maxRetries = 0 /\ IsSettled(items[i])) => items[i].attempts = 1

\* C5 witness: with maxRetries = 0 an item failed and was reported rejected.
C5_Witness ==
    /\ putPc = "resolved"
    /\ options.maxRetries = 0
    /\ \E i \in Indexes : items[i].failed = 1 /\ responses[i].status = "rejected"

C7_CallbackOptional ==
    \A i \in Indexes :
        (IsSettled(items[i]) /\ items[i].failed = 0)
            => items[i].result = Fulfilled(Entry(urls[i]))

\* C8 (as stated): no client object without a token exists.
C8_NoClientWithoutToken ==
    client.constructed => client.token \notin {"undefined", ""}

\* C8 (amended): a client constructed with the token empty or omitted exists,
\* and the missing token is found when it is used: its put and list calls
\* fail and nothing is sent over the network.
C8_TokenCheckedAtCall ==
    MissingToken =>
        /\ net = <<>>
        /\ putPc \in {"idle", "threw"}
        /\ listPc \in {"idle", "threw"}

\* C8 witness: a client without a token was constructed and both calls made.
C8_Witness ==
    /\ MissingToken
    /\ putPc = "threw"
    /\ listPc = "threw"

\* C9: put and list on a service without a token fail as calls, with
\* 'missing token', before any limiter invocation and any request; no item
\* outcome is produced and nothing is attempted.
C9_MissingTokenCallLevel ==
    MissingToken =>
        /\ putPc # "idle" =>
            /\ putPc = "threw"
            /\ putError = "missing token"
            /\ items = <<>>
            /\ responses = <<>>
        /\ listPc # "idle" =>
            /\ listPc = "threw"
            /\ listError = "missing token"
            /\ listBody = NoBody
        /\ throttle.invoked = 0
        /\ Requests("POST") = {}
        /\ Requests("GET") = {}

\* C9 witness: put of two urls on a client with the empty token has failed.
C9_Witness ==
    /\ client.constructed
    /\ client.token = ""
    /\ Len(urls) = 2
    /\ putError = "missing token"
    /\ listError = "missing token"

C13_RequestsGated ==
    /\ Len(net) <= Len(throttle.grants)
    /\ \A i \in Indexes :
        items[i].pc # "limiter" => items[i].ticket \in Granted(throttle)
    /\ listPc \in {"fetching", "resolved"} => listTicket \in Granted(throttle)

\* C13 witness: the quota is used up by requests issued, and an invocation
\* still waits in the queue, its request not issued.
C13_Witness ==
    /\ throttle.queue # <<>>
    /\ Len(net) = RATE_LIMIT_REQUESTS
    /\ Len(throttle.grants) = RATE_LIMIT_REQUESTS

\* C14: the limiter is FIFO: invocations are released in the order they were
\* made, at non-decreasing times, and the queue holds them in that order.
C14_Fifo ==
    /\ \A j, k \in 1..Len(throttle.grants) :
        j < k =>
            /\ throttle.grants[j].ticket < throttle.grants[k].ticket
            /\ throttle.grants[j].time <= throttle.grants[k].time
    /\ \A j, k \in 1..Len(throttle.queue) :
        j < k => throttle.queue[j] < throttle.queue[k]
    /\ \A j \in 1..Len(throttle.queue), k \in 1..Len(throttle.grants) :
        throttle.grants[k].ticket < throttle.queue[j]

\* C14 witness: two invocations queued behind a full interval were released,
\* in their order, by two runs of the timer.
C14_Witness ==
    \E j, k \in 1..Len(throttle.grants) :
        /\ j < k
        /\ throttle.grants[j].ticket > RATE_LIMIT_REQUESTS
        /\ throttle.grants[j].time < throttle.grants[k].time
        /\ throttle.grants[j].time = throttle.grants[j].interval
        /\ throttle.grants[k].interval
                = throttle.grants[j].interval + RATE_LIMIT_PERIOD

PostTargets == SelectSeq(net, LAMBDA r : r.method = "POST")

\* C19: the permits of a batch are requested in input order, all of them in
\* the call of put, before any request of the batch; the items' requests are
\* issued in input order.
C19_PermitsInInputOrder ==
    /\ \A i, j \in Indexes : i < j => items[i].ticket < items[j].ticket
    /\ putPc = "running" =>
        /\ Len(items) = Len(urls)
        /\ \A i \in Indexes : items[i].ticket <= throttle.invoked
    /\ \A a, b \in 1..Len(PostTargets) :
        a < b => PostTargets[a].target[2] < PostTargets[b].target[2]

\* C19 witness: the second url's request was issued after the first's and
\* answered before it.
C19_Witness ==
    /\ Len(PostTargets) = 2
    /\ items[2].pc = "rejected"
    /\ items[1].pc = "fetching"

\* C15: the limiter never fails and never starves: an invocation is either
\* released or waiting in the queue (none is lost or rejected), and every
\* invocation is eventually released.
C15_EveryInvocationResolves ==
    /\ [](/\ Granted(throttle) \cup {throttle.queue[k] : k \in 1..Len(throttle.queue)}
                = 1..throttle.invoked
          /\ Len(throttle.grants) + Len(throttle.queue) = throttle.invoked)
    /\ \A ticket \in 1..MaxInvocations :
        (throttle.invoked >= ticket) ~> (ticket \in Granted(throttle))

\* C15 witness: every invocation has been made and released, the last one by
\* the timer, two intervals after the first.
C15_Witness ==
    /\ throttle.invoked = MaxInvocations
    /\ throttle.queue = <<>>
    /\ Len(throttle.grants) = MaxInvocations
    /\ throttle.grants[MaxInvocations].time
            >= throttle.grants[1].time + RATE_LIMIT_PERIOD
    /\ throttle.grants[MaxInvocations].time = throttle.grants[MaxInvocations].interval
    /\ throttle.grants[MaxInvocations - 1].interval
            = throttle.grants[MaxInvocations].interval

\* C16: every put batch settles: a call of put that is running eventually
\* returns, every item settled after finitely many attempts.
C16_PutSettles ==
    /\ (putPc = "running") ~> (putPc = "resolved")
    /\ [](putPc = "resolved" =>
            \A i \in Indexes : IsSettled(items[i]) /\ items[i].attempts <= MaxFails + 1)

\* C16 witness: put returned although an item had to wait in the queue of the
\* limiter and an item failed.
C16_Witness ==
    /\ putPc = "resolved"
    /\ Len(items) = 2
    /\ Len(throttle.grants) > RATE_LIMIT_REQUESTS
    /\ items[1].pc = "rejected"

\* C11 (as stated): one limiter is shared by everything that supplied none:
\* the invocations of all the instances and of all the static calls are
\* counted by the global limiter.
C11_OneSharedQuota ==
    limiters[globalRateLimiter].invoked = CallsOf(PlainServices \cup Instances)

\* C11 (amended): the static calls whose service carries no rateLimiter are
\* counted together by the global limiter, which holds them to its quota per
\* interval; an instance has a limiter of its own, other than the global one
\* and other than any other instance's.
C11_StaticCallsShareQuota ==
    /\ limiters[globalRateLimiter].invoked = CallsOf(PlainServices)
    /\ \A k \in 1..Len(limiters[globalRateLimiter].grants) :
        Cardinality(GrantsOf(limiters[globalRateLimiter],
                             limiters[globalRateLimiter].grants[k].interval))
            <= RATE_LIMIT_REQUESTS
    /\ \A name \in DOMAIN services :
        /\ services[name].rateLimiter # globalRateLimiter
        /\ \A other \in DOMAIN services \ {name} :
            services[other].rateLimiter # services[name].rateLimiter

\* C11 witness: two plain services, neither over the quota alone, filled the
\* quota of the global limiter together, so that a static call waits, while
\* a call through an instance made at that time was released at once.
C11_Witness ==
    /\ \A caller \in PlainServices :
        callsBy[caller] >= 1 /\ callsBy[caller] <= RATE_LIMIT_REQUESTS
    /\ limiters[globalRateLimiter].queue # <<>>
    /\ \E name \in DOMAIN services :
        /\ callsBy[name] = 1
        /\ Len(limiters[services[name].rateLimiter].grants) = 1
        /\ limiters[services[name].rateLimiter].grants[1].time
                >= limiters[globalRateLimiter].lastIntervalStart

\* C12: an instance constructed without rateLimiter has a limiter of its own:
\* that limiter counts the calls made through the instance and no others, so
\* a call through the instance waits only when the instance itself is over
\* its quota; the global limiter counts the static calls without rateLimiter
\* only.
C12_InstanceOwnLimiter ==
    /\ \A name \in DOMAIN services :
        LET thr == limiters[services[name].rateLimiter]
        IN  /\ thr.invoked = callsBy[name]
            /\ thr.queue # <<>> => callsBy[name] > RATE_LIMIT_REQUESTS
            /\ callsBy[name] <= RATE_LIMIT_REQUESTS => Len(thr.grants) = callsBy[name]
    /\ limiters[globalRateLimiter].invoked = CallsOf(PlainServices)

\* C12 witness: the first instance is over its quota and waits; the second
\* used its whole quota meanwhile, in the same interval, without waiting.
C12_Witness ==
    /\ DOMAIN services = Instances
    /\ limiters[services["first"].rateLimiter].queue # <<>>
    /\ callsBy["second"] = RATE_LIMIT_REQUESTS
    /\ Len(limiters[services["second"].rateLimiter].grants) = RATE_LIMIT_REQUESTS
    /\ limiters[services["second"].rateLimiter].lastIntervalStart
            >= limiters[services["first"].rateLimiter].lastIntervalStart

Entered == {trace[k] : k \in 1..Len(trace)}

ChecksInOrder ==
    <<"envAll", "withCorsHeaders", "withApiToken", "withAccountNotRestricted",
      "withSuperHotAuthorized", "permaCachePut">>

\* C17: permaCachePut is entered only for PUT /perma-cache/:url and only after
\* envAll, the CORS wrap, the API-token check, the restricted-account check
\* and the super-hot check, entered and passed in this order; a request that
\* a check rejected enters no later check and not the handler.
C17_HandlerBehindChecks ==
    /\ "permaCachePut" \in Entered =>
        /\ request.method = "PUT"
        /\ request.path = "/perma-cache/u"
        /\ request.authorization = "present"
        /\ trace = ChecksInOrder
    /\ \A k \in 1..Len(trace) : k <= Len(ChecksInOrder) /\ trace[k] = ChecksInOrder[k]
    /\ failure # None => trace[Len(trace)] = failure
    /\ Len(trace) > 1 => Matches(request)

\* C17 witness: a request passed every check and permaCachePut answered it.
C17_Witness ==
    /\ routerPc = "returned"
    /\ failure = None
    /\ trace = ChecksInOrder
    /\ reply.status = "ok"

\* C18: a failure of routing or of a handler ends in an error response with
\* the CORS headers, returned by fetch: through env.log (timeEnd, then end)
\* when env.log was set, with env.log untouched when it was not.
C18_FailureBecomesResponse ==
    /\ routerPc = "caught" => failure # None /\ ENABLED Catch
    /\ (routerPc = "returned" /\ failure # None) =>
        /\ reply.returned
        /\ reply.status = "error"
        /\ reply.error = failure
        /\ reply.cors
        /\ env.log => logCalls = <<"timeEnd", "end">> /\ reply.logged
        /\ ~env.log => logCalls = <<>> /\ ~reply.logged

\* C18 witness: envAll threw before env.log existed, and fetch returned the
\* error response without touching env.log.
C18_Witness ==
    /\ routerPc = "returned"
    /\ failure = "envAll"
    /\ ~env.log
    /\ reply.status = "error"
    /\ reply.cors
    /\ logCalls = <<>>

====
